---- MODULE Spec2Model ----
(***************************************************************************)
(* Breakout-and-retest backtester (src/breaknretest.py).                   *)
(*                                                                         *)
(* The model follows one instrument through the pipeline of the execution  *)
(* loop: detect_breakout_retests labels the bars of a price series, then   *)
(* backtest walks the labelled series and builds the equity curve, then    *)
(* compute_statistics reads the curve.  Bars are indexed 0..N-1 as in the  *)
(* source.  Prices are small integers; the balance, a float in the source, *)
(* is an exact fraction [n, d] in lowest terms.                            *)
(***************************************************************************)
EXTENDS Integers, Sequences, FiniteSets

\* ---------------------------------------------------------------- bounds
\* Longest series explored.
MaxN == 7

\* Zone window and retest window, scaled down from 40 and 20 bars.
LOOKBACK == 2
RETTEST_LOOKAHEAD == 2

\* ------------------------------------------------------------- constants
INITIAL_BALANCE == 10000
RR == 2

\* ------------------------------------------------------------- fractions
RECURSIVE Gcd(_, _)
Gcd(a, b) == IF b = 0 THEN a ELSE Gcd(b, a % b)

Abs(x) == IF x < 0 THEN 0 - x ELSE x

\* The fraction n/d in lowest terms, d > 0.
Rat(n, d) ==
    LET g == Gcd(Abs(n), d)
    IN  [n |-> n \div g, d |-> d \div g]

Lcm(a, b) == (a \div Gcd(a, b)) * b

RatAdd(x, y) ==
    LET m == Lcm(x.d, y.d)
    IN  Rat(x.n * (m \div x.d) + y.n * (m \div y.d), m)

RatSub(x, y) ==
    LET m == Lcm(x.d, y.d)
    IN  Rat(x.n * (m \div x.d) - y.n * (m \div y.d), m)

RatMul(x, y) ==
    LET g1 == Gcd(Abs(x.n), y.d)
        g2 == Gcd(Abs(y.n), x.d)
    IN  Rat((x.n \div g1) * (y.n \div g2), (x.d \div g2) * (y.d \div g1))

RatDiv(x, y) == RatMul(x, [n |-> y.d, d |-> y.n])

RatInt(k) == [n |-> k, d |-> 1]

\* RISK_PER_TRADE = 0.01
RISK_PER_TRADE == [n |-> 1, d |-> 100]

\* ------------------------------------------------------------ price bars
Bar(l, c, h) == [low |-> l, close |-> c, high |-> h]

\* The bars a series is built from: low <= close <= high on every bar.
Bars == {Bar(1, 1, 1), Bar(2, 2, 2), Bar(3, 3, 3), Bar(2, 4, 4), Bar(1, 4, 4)}

\* df.index[k]: the timestamp of bar k of an hourly series, in seconds.
TimeOf(k) == k * 3600

\* j before the resolution loop of backtest has assigned it.
Unbound == 0 - 1

SetMax(S) == CHOOSE x \in S : \A y \in S : y <= x
SetMin(S) == CHOOSE x \in S : \A y \in S : x <= y

\* df['high'].iloc[i-LOOKBACK:i].max() and df['low'].iloc[i-LOOKBACK:i].min()
WindowHigh(d, k) == SetMax({d[m].high : m \in (k - LOOKBACK)..(k - 1)})
WindowLow(d, k) == SetMin({d[m].low : m \in (k - LOOKBACK)..(k - 1)})

VARIABLES
    pc,       \* position in the pipeline
    N,        \* len(df)
    df,       \* the price series, 0..N-1 -> bar
    Signal,   \* df['Signal'], 0..N-1 -> "None" | "buy" | "sell"
    i,        \* loop variable of the function that is running
    writes,   \* the labels written by detect_breakout_retests, in order
    balance, equity, times, wins, losses,   \* locals of backtest
    sig, price, risk, sl, tp, j,            \* locals of one backtest iteration
    trades,   \* one record per trade backtest has opened, in order
    stats,    \* the result of compute_statistics
    err       \* the exception that ended the run, "" if none

vars == <<pc, N, df, Signal, i, writes, balance, equity, times, wins, losses,
          sig, price, risk, sl, tp, j, trades, stats, err>>

detectVars == <<Signal, writes>>
acctVars == <<balance, equity, times, wins, losses>>
tradeVars == <<sig, price, risk, sl, tp, j, trades>>

----------------------------------------------------------------------------
\* detect_breakout_retests

\* The inner loop without its break: every matching bar of the window is
\* labelled.
RECURSIVE RetestScanNoBreak(_, _, _, _, _)
RetestScanNoBreak(d, dir, zone, k, last) ==
    IF k > last THEN <<>>
    ELSE IF (dir = "buy" /\ d[k].low <= zone) \/ (dir = "sell" /\ d[k].high >= zone)
         THEN <<k>> \o RetestScanNoBreak(d, dir, zone, k + 1, last)
         ELSE RetestScanNoBreak(d, dir, zone, k + 1, last)

\* The inner loop started one bar early, at the origin bar itself.
RECURSIVE RetestScanFromOrigin(_, _, _, _, _)
RetestScanFromOrigin(d, dir, zone, k, last) ==
    IF k - 1 > last THEN <<>>
    ELSE IF (dir = "buy" /\ d[k - 1].low <= zone) \/ (dir = "sell" /\ d[k - 1].high >= zone)
         THEN <<k - 1>>
         ELSE RetestScanFromOrigin(d, dir, zone, k + 1, last)

\* The inner loop over j in range(k, last + 1): the bars it labels, in order.
\* dir is "buy" (low[j] <= zone) or "sell" (high[j] >= zone); the loop breaks
\* at the first match.
RECURSIVE RetestScan(_, _, _, _, _)
RetestScan(d, dir, zone, k, last) ==
    IF k > last THEN <<>>
    ELSE IF (dir = "buy" /\ d[k].low <= zone) \/ (dir = "sell" /\ d[k].high >= zone)
         THEN <<k>>
         ELSE RetestScan(d, dir, zone, k + 1, last)

\* The body of the loop over i: the labels origin bar k writes.
OriginWrites(d, k) ==
    LET zone_high == WindowHigh(d, k)
        zone_low == WindowLow(d, k)
        close_i == d[k].close
    IN  IF close_i > zone_high
        THEN [m \in 1..Len(RetestScan(d, "buy", zone_high, k + 1, k + RETTEST_LOOKAHEAD)) |->
                [origin |-> k,
                 bar |-> RetestScan(d, "buy", zone_high, k + 1, k + RETTEST_LOOKAHEAD)[m],
                 label |-> "buy"]]
        ELSE IF close_i < zone_low
        THEN [m \in 1..Len(RetestScan(d, "sell", zone_low, k + 1, k + RETTEST_LOOKAHEAD)) |->
                [origin |-> k,
                 bar |-> RetestScan(d, "sell", zone_low, k + 1, k + RETTEST_LOOKAHEAD)[m],
                 label |-> "sell"]]
        ELSE <<>>

\* df.at[df.index[j], 'Signal'] = label, for each write in order.
RECURSIVE ApplyWrites(_, _)
ApplyWrites(s, ws) ==
    IF ws = <<>> THEN s
    ELSE ApplyWrites([s EXCEPT ![Head(ws).bar] = Head(ws).label], Tail(ws))

\* First bar past the origins: range(LOOKBACK, len(df) - RETTEST_LOOKAHEAD).
OriginEnd(n) == n - RETTEST_LOOKAHEAD

DetectStep ==
    /\ pc = "detect"
    /\ i < OriginEnd(N)
    /\ Signal' = ApplyWrites(Signal, OriginWrites(df, i))
    /\ writes' = writes \o OriginWrites(df, i)
    /\ i' = i + 1
    /\ UNCHANGED <<pc, N, df, stats, err>>
    /\ UNCHANGED acctVars
    /\ UNCHANGED tradeVars

----------------------------------------------------------------------------
\* backtest

\* detect_breakout_retests returns; backtest sets up its locals.
\* df.index[LOOKBACK] raises IndexError on a series of at most LOOKBACK bars.
BacktestStart ==
    /\ pc = "detect"
    /\ i >= OriginEnd(N)
    /\ IF LOOKBACK >= N
       THEN /\ pc' = "error"
            /\ err' = "IndexError"
            /\ balance' = RatInt(INITIAL_BALANCE)
            /\ UNCHANGED <<equity, times, wins, losses, i>>
       ELSE /\ pc' = "backtest"
            /\ balance' = RatInt(INITIAL_BALANCE)
            /\ equity' = <<RatInt(INITIAL_BALANCE)>>
            /\ times' = <<TimeOf(LOOKBACK)>>
            /\ wins' = 0
            /\ losses' = 0
            /\ i' = LOOKBACK + 1
            /\ UNCHANGED err
    /\ UNCHANGED <<N, df, stats>>
    /\ UNCHANGED detectVars
    /\ UNCHANGED tradeVars

\* Position sizing from the starting balance instead of the current one.
RiskOfInitial(bal) == RatMul(RatInt(INITIAL_BALANCE), RISK_PER_TRADE)

\* risk = balance * RISK_PER_TRADE
RiskOf(bal) == RatMul(bal, RISK_PER_TRADE)

StopOf(d, s, k) == IF s = "buy" THEN WindowLow(d, k) ELSE WindowHigh(d, k)

TargetOf(s, p, stop) == IF s = "buy" THEN p + (p - stop) * RR ELSE p - (stop - p) * RR

\* One iteration of the loop over i, up to the start of the resolution loop.
OuterStep ==
    /\ pc = "backtest"
    /\ i < N
    /\ sig' = Signal[i]
    /\ price' = df[i].close
    /\ IF Signal[i] \in {"buy", "sell"}
       THEN /\ risk' = RiskOf(balance)
            /\ sl' = StopOf(df, Signal[i], i)
            /\ tp' = TargetOf(Signal[i], df[i].close, StopOf(df, Signal[i], i))
            /\ trades' = Append(trades,
                    [entry |-> i, sig |-> Signal[i], price |-> df[i].close,
                     sl |-> StopOf(df, Signal[i], i),
                     tp |-> TargetOf(Signal[i], df[i].close, StopOf(df, Signal[i], i)),
                     bal |-> balance, scanned |-> FALSE, res |-> Unbound,
                     out |-> "open", recorded |-> FALSE, after |-> balance,
                     t |-> Unbound])
            /\ IF i + 1 < N
               THEN j' = i + 1 /\ pc' = "scan"
               ELSE j' = j /\ pc' = "append"
            /\ i' = i
       ELSE /\ i' = i + 1
            /\ UNCHANGED <<risk, sl, tp, j, trades, pc>>
    /\ UNCHANGED <<N, df, stats, err>>
    /\ UNCHANGED detectVars
    /\ UNCHANGED acctVars

\* The tests with the target checked before the stop.
ResolveTargetFirst(s, h, l, c, stop, target) ==
    IF s = "buy" /\ c >= target THEN "win"
    ELSE IF s = "buy" /\ l <= stop THEN "loss"
    ELSE IF s = "sell" /\ c <= target THEN "win"
    ELSE IF s = "sell" /\ h >= stop THEN "loss"
    ELSE "none"

\* The four tests of the resolution loop on one bar, in source order.
Resolve(s, h, l, c, stop, target) ==
    IF s = "buy" /\ l <= stop THEN "loss"
    ELSE IF s = "buy" /\ c >= target THEN "win"
    ELSE IF s = "sell" /\ h >= stop THEN "loss"
    ELSE IF s = "sell" /\ c <= target THEN "win"
    ELSE "none"

\* balance after the branch taken on the resolving bar.
Settle(bal, r, outcome) ==
    IF outcome = "loss" THEN RatSub(bal, r)
    ELSE IF outcome = "win" THEN RatAdd(bal, RatMul(r, RatInt(RR)))
    ELSE bal

\* One iteration of the resolution loop over j.
ScanStep ==
    /\ pc = "scan"
    /\ LET outcome == Resolve(sig, df[j].high, df[j].low, df[j].close, sl, tp)
           last == Len(trades)
       IN  /\ balance' = Settle(balance, risk, outcome)
           /\ losses' = IF outcome = "loss" THEN losses + 1 ELSE losses
           /\ wins' = IF outcome = "win" THEN wins + 1 ELSE wins
           /\ trades' = [trades EXCEPT ![last].scanned = TRUE,
                                       ![last].res = j,
                                       ![last].out = IF outcome = "none" THEN "open" ELSE outcome]
           /\ IF outcome = "none" /\ j + 1 < N
              THEN j' = j + 1 /\ pc' = "scan"
              ELSE j' = j /\ pc' = "append"
    /\ UNCHANGED <<N, df, i, stats, err, equity, times, sig, price, risk, sl, tp>>
    /\ UNCHANGED detectVars

\* equity.append(balance); times.append(df.index[j]).  Reading j raises
\* UnboundLocalError when no resolution loop has assigned it.
AppendPoint ==
    /\ pc = "append"
    /\ equity' = Append(equity, balance)
    /\ IF j = Unbound
       THEN /\ pc' = "error"
            /\ err' = "UnboundLocalError"
            /\ UNCHANGED <<times, trades, i>>
       ELSE /\ times' = Append(times, TimeOf(j))
            /\ trades' = [trades EXCEPT ![Len(trades)].recorded = TRUE,
                                        ![Len(trades)].after = balance,
                                        ![Len(trades)].t = j]
            /\ i' = i + 1
            /\ pc' = "backtest"
            /\ UNCHANGED err
    /\ UNCHANGED <<N, df, stats, balance, wins, losses, sig, price, risk, sl, tp, j>>
    /\ UNCHANGED detectVars

----------------------------------------------------------------------------
\* compute_statistics, the part that reads the two lists as sequences:
\* total return, elapsed time and the trade count.
compute_statistics(eq, timestamps) ==
    LET elapsed == timestamps[Len(timestamps)] - timestamps[1]
    IN  [total_ret |-> RatSub(RatDiv(eq[Len(eq)], eq[1]), RatInt(1)),
         elapsed |-> elapsed,
         annualised |-> elapsed > 0,
         Trades |-> Len(eq) - 1]

\* The loop over i is exhausted: backtest computes the statistics and returns.
BacktestReturn ==
    /\ pc = "backtest"
    /\ i >= N
    /\ stats' = compute_statistics(equity, times)
    /\ pc' = "done"
    /\ UNCHANGED <<N, df, i, err>>
    /\ UNCHANGED detectVars
    /\ UNCHANGED acctVars
    /\ UNCHANGED tradeVars

----------------------------------------------------------------------------
NoStats == [total_ret |-> RatInt(0), elapsed |-> 0, annualised |-> FALSE, Trades |-> 0]

Init ==
    /\ pc = "detect"
    /\ N \in 1..MaxN
    /\ df \in [0..(N - 1) -> Bars]
    /\ Signal = [k \in 0..(N - 1) |-> "None"]
    /\ i = LOOKBACK
    /\ writes = <<>>
    /\ balance = RatInt(0)
    /\ equity = <<>>
    /\ times = <<>>
    /\ wins = 0
    /\ losses = 0
    /\ sig = "None"
    /\ price = 0
    /\ risk = RatInt(0)
    /\ sl = 0
    /\ tp = 0
    /\ j = Unbound
    /\ trades = <<>>
    /\ stats = NoStats
    /\ err = ""

Next ==
    \/ DetectStep
    \/ BacktestStart
    \/ OuterStep
    \/ ScanStep
    \/ AppendPoint
    \/ BacktestReturn

Spec == Init /\ [][Next]_vars

----------------------------------------------------------------------------
\* Properties of the trade simulator

TradeIds == 1..Len(trades)

\* Bars of the resolution loop of trade t that meet its stop or its target.
StopHit(t, k) ==
    IF t.sig = "buy" THEN df[k].low <= t.sl ELSE df[k].high >= t.sl
TargetHit(t, k) ==
    IF t.sig = "buy" THEN df[k].close >= t.tp ELSE df[k].close <= t.tp
HitBars(t) == {k \in (t.entry + 1)..(N - 1) : StopHit(t, k) \/ TargetHit(t, k)}

\* C1: at most one open trade at a time: of two trades, the later one is
\* entered no earlier than the bar at which the earlier one's resolution
\* loop ended.
OneTradeAtATime ==
    \A a \in TradeIds : \A b \in TradeIds :
        (trades[a].entry < trades[b].entry /\ trades[a].scanned)
            => trades[b].entry >= trades[a].res

\* C2: when backtest returns, wins + losses is the number of trades that
\* hit their stop or target, and the equity list has one point per such
\* trade plus the seed point.
CountsMatchEquity ==
    pc = "done" =>
        /\ wins + losses = Cardinality({k \in TradeIds : trades[k].out \in {"win", "loss"}})
        /\ Len(equity) = wins + losses + 1

\* C3: stop-priority tie-break: when the first bar that meets the stop or
\* the target of the open trade meets both, the step that processes it counts
\* a loss, leaves wins alone and takes the risk amount off the balance.
StopPriority ==
    [][(/\ pc = "scan"
        /\ HitBars(trades[Len(trades)]) # {}
        /\ j = SetMin(HitBars(trades[Len(trades)]))
        /\ StopHit(trades[Len(trades)], j)
        /\ TargetHit(trades[Len(trades)], j))
       => (/\ losses' = losses + 1
           /\ wins' = wins
           /\ balance' = RatSub(trades[Len(trades)].bal,
                                RatMul(trades[Len(trades)].bal, RISK_PER_TRADE)))]_vars

\* A long trade with its stop below the entry was lost on a bar that also
\* closed at or above its target.
StopPriorityWitness ==
    \E k \in TradeIds :
        /\ trades[k].sig = "buy"
        /\ trades[k].sl < trades[k].price
        /\ trades[k].out = "loss"
        /\ trades[k].recorded
        /\ df[trades[k].res].low <= trades[k].sl
        /\ df[trades[k].res].close >= trades[k].tp

\* C4: the balance changes only on the step that resolves a trade, to
\* b - b*RISK_PER_TRADE on a loss and b + b*RISK_PER_TRADE*RR on a win, b being
\* the balance when the signal bar was processed; the first equity point is
\* INITIAL_BALANCE.
BalanceRule ==
    /\ [](Len(equity) >= 1 => equity[1] = RatInt(INITIAL_BALANCE))
    /\ [](\A k \in TradeIds :
            LET t == trades[k]
                r == RatMul(t.bal, RISK_PER_TRADE)
            IN  t.recorded =>
                    /\ t.out = "loss" => t.after = RatSub(t.bal, r)
                    /\ t.out = "win" => t.after = RatAdd(t.bal, RatMul(r, RatInt(RR)))
                    /\ t.out = "open" => t.after = t.bal)
    /\ [][(pc \in {"backtest", "scan", "append"} /\ balance' # balance)
            => /\ pc = "scan"
               /\ trades'[Len(trades)].out \in {"win", "loss"}
               /\ wins' + losses' = wins + losses + 1]_vars

\* A win was settled after a loss had already changed the balance.
BalanceRuleWitness ==
    \E a \in TradeIds : \E b \in TradeIds :
        /\ a < b
        /\ trades[a].recorded /\ trades[a].out = "loss"
        /\ trades[b].recorded /\ trades[b].out = "win"

\* C5: the timestamps of the equity points are in non-decreasing order.
TimesOrdered ==
    \A k \in 2..Len(times) : times[k - 1] <= times[k]

\* C9: the bar whose timestamp is recorded for a trade was assigned by that
\* trade's own resolution loop and lies after the entry bar; j is never read
\* unassigned.
RecordedBarFromOwnScan ==
    /\ pc = "append" => j # Unbound
    /\ \A k \in TradeIds :
          trades[k].recorded =>
              /\ trades[k].scanned
              /\ trades[k].entry < trades[k].t
              /\ trades[k].t <= N - 1

\* C10: every trade has its stop on the losing side and its target on the
\* winning side of the entry price.
StopAndTargetStraddleEntry ==
    \A k \in TradeIds :
        LET t == trades[k]
        IN  IF t.sig = "buy"
            THEN t.sl < t.price /\ t.price < t.tp
            ELSE t.tp < t.price /\ t.price < t.sl

\* C8: a series shorter than LOOKBACK + RETTEST_LOOKAHEAD + 1 bars never
\* comes back from backtest with an equity list and statistics.
ShortSeriesFails ==
    N < LOOKBACK + RETTEST_LOOKAHEAD + 1 => pc # "done"

----------------------------------------------------------------------------
\* Properties of the signal detector

\* Origins the loop of detect_breakout_retests has been through.
Processed ==
    IF pc = "detect" THEN LOOKBACK..(i - 1) ELSE LOOKBACK..(N - 1 - RETTEST_LOOKAHEAD)

AboveZone(o) == \A m \in (o - LOOKBACK)..(o - 1) : df[o].close > df[m].high
BelowZone(o) == \A m \in (o - LOOKBACK)..(o - 1) : df[o].close < df[m].low

\* Bars of the lookahead window of origin o that retest the broken level.
Retests(o) ==
    IF AboveZone(o)
    THEN {k \in (o + 1)..(o + RETTEST_LOOKAHEAD) :
            \E m \in (o - LOOKBACK)..(o - 1) : df[k].low <= df[m].high}
    ELSE IF BelowZone(o)
    THEN {k \in (o + 1)..(o + RETTEST_LOOKAHEAD) :
            \E m \in (o - LOOKBACK)..(o - 1) : df[k].high >= df[m].low}
    ELSE {}

\* C6: each breakout origin writes at most one label, at the first bar of its
\* lookahead window that retests the broken level, and none if there is no
\* such bar; nothing else writes a label.
FirstRetestOnly ==
    /\ \A m \in 1..Len(writes) : writes[m].origin \in Processed
    /\ \A o \in Processed :
          LET ws == {m \in 1..Len(writes) : writes[m].origin = o}
          IN  /\ Cardinality(ws) <= 1
              /\ Retests(o) = {} => ws = {}
              /\ Retests(o) # {} =>
                    \E m \in ws :
                        /\ writes[m].bar = SetMin(Retests(o))
                        /\ writes[m].label = IF AboveZone(o) THEN "buy" ELSE "sell"
    /\ \A k \in 0..(N - 1) :
          LET ws == {m \in 1..Len(writes) : writes[m].bar = k}
          IN  Signal[k] = IF ws = {} THEN "None" ELSE writes[SetMax(ws)].label

\* Both bars of a lookahead window retest the level and the first got the label.
FirstRetestOnlyWitness ==
    \E m \in 1..Len(writes) :
        /\ Cardinality(Retests(writes[m].origin)) >= 2
        /\ writes[m].bar = writes[m].origin + 1
        /\ Signal[writes[m].bar] = writes[m].label

====
